---- MODULE Spec2Model ----
(***************************************************************************)
(* Model of the ratrace server: the EventSub session (TwitchEventSub.ts),  *)
(* the credential manager (TwitchAuthManager.ts), the race registration    *)
(* (apiRoutes.ts, handleRegistrationCommand) and its betting variant.      *)
(*                                                                         *)
(* SpecSession drives the WebSocket client of TwitchEventSub.ts: connect   *)
(* calls from the three trigger sites, socket life-cycle events and the    *)
(* EventSub messages.  SpecAuth drives TwitchAuthManager: every await of   *)
(* the class is a point where another operation may run.  SpecRace and     *)
(* SpecBets drive the synchronous handlers that change the participants    *)
(* and the bets; SpecSessionLive is SpecSession with the event loop's      *)
(* fairness.                                                               *)
(* SpecFeed adds the subscriptions and the notifications a socket         *)
(* delivers; SpecShutdown adds the SIGINT/SIGTERM handler of index.ts.     *)
(* SpecSubscribe is SpecFeed without the notifications, SpecSubscribeLive  *)
(* adds fairness; SpecStartup starts before validateTwitchConfig;          *)
(* SpecOverlap lets getValidAccessToken calls overlap.                     *)
(***************************************************************************)
EXTENDS Integers, FiniteSets, Sequences, Bags, TLC

VARIABLES
    \* ---- TwitchEventSub.ts
    readyState,               \* per socket: the ws readyState ("NONE" = not created yet)
    welcomed,                 \* per socket: a session_welcome was processed on it
    twitchEventSubClient,     \* module variable: the socket reference or Null
    twitchEventSubSessionId,  \* module variable: the session id or Null
    timers,                   \* number of pending setTimeout(connect, 5000) timers
    started,                  \* httpServer.listen callback has run
    lastOp,                   \* name of the last handler that ran
    connectOutcome,           \* what the last connectToTwitchEventSub call did
    \* ---- TwitchAuthManager.ts
    accessToken,              \* this.accessToken (Null = absent)
    refreshToken,             \* this.refreshToken
    expiresAt,                \* this.expiresAt, seconds since the epoch
    file,                     \* tokens.json: <<>> when missing, else <<record>>
    writes,                   \* tokenData of the fs.writeFile calls in flight that nobody awaits
    calls,                    \* bag of the suspended async operations
    ret,                      \* what the last action returned to its caller (NoRet if nothing)
    initialized,              \* initialize() has returned
    now,                      \* Math.floor(Date.now() / 1000)
    \* ---- race registration (apiRoutes.ts, handleRegistrationCommand)
    raceIsOpen,               \* raceState.isOpen
    participants,             \* participants.current
    msNow,                    \* Date.now(), milliseconds
    raceOp,                   \* the last registration handler that ran, with its inputs
    emitted,                  \* Socket.IO events the last handler emitted, in order
    \* ---- betting variant (part_003, types/twitch.ts)
    bettingIsOpen,            \* bettingState.isOpen
    currentBets,              \* currentBets.current
    betOp,                    \* the last betting handler that ran, with its inputs
    betEmitted,               \* Socket.IO events the last betting handler emitted
    \* ---- EventSub subscriptions and notifications (part_004)
    subscribeCalls,           \* per socket: session ids its welcomes passed to createEventSubSubscription
    subscription,             \* per socket: progress of the subscription of its session
    posts,                    \* per socket: the subscription POSTs sent for its session
    delivery,                 \* the last notification: its socket, the session id held, list changed
    \* ---- process shutdown (index.ts)
    shutdownPc,               \* position of the SIGINT/SIGTERM handler
    boot                      \* the .env identifiers that are set and the position of startServer

sessionState == <<readyState, welcomed, twitchEventSubClient, twitchEventSubSessionId,
                  timers, started, connectOutcome>>

sessionVars == <<sessionState, lastOp>>

authVars == <<accessToken, refreshToken, expiresAt, file, writes, calls, ret, initialized, now>>

raceVars == <<raceIsOpen, participants, msNow, raceOp, emitted>>

betVars == <<bettingIsOpen, currentBets, betOp, betEmitted>>

feedVars == <<subscribeCalls, subscription, posts, delivery>>

shutdownVars == <<shutdownPc, boot>>

otherVars == <<feedVars, shutdownVars>>

vars == <<sessionVars, authVars, raceVars, betVars, otherVars>>

\* ---------------------------------------------------------------- bounds
MaxSockets == 4
MaxTimers == 2

\* ---------------------------------------------------------------- constants
Null == 0
NORMAL_CLOSURE == 1000
ABNORMAL_CLOSURE == 1006

Sockets == 1..MaxSockets
CloseCodes == {NORMAL_CLOSURE, ABNORMAL_CLOSURE}

\* ================================================================ EventSub session

\* Number of sockets created so far; `new WebSocket(...)` creates socket Created + 1.
Created == Cardinality({s \in Sockets : readyState[s] # "NONE"})

\* the readyState a socket reports: an aborted handshake reads CLOSING
ReportedState(s) == IF readyState[s] = "ABORTING" THEN "CLOSING" ELSE readyState[s]

\* mutant of AlreadyOpenOrConnecting: the guard forgets the CONNECTING case
AlreadyOpenOnly(c) ==
    /\ c # Null
    /\ ReportedState(c) = "OPEN"

\* connectToTwitchEventSub, the guard of its early return
AlreadyOpenOrConnecting(c) ==
    /\ c # Null
    /\ (ReportedState(c) = "OPEN" \/ ReportedState(c) = "CONNECTING")

\* The session id the upstream hands out in the welcome of socket s.
SessionIdOf(s) == s

\* connectToTwitchEventSub: returns early when the referenced socket is open or
\* connecting, otherwise creates a socket and stores the reference.
Connect ==
    IF AlreadyOpenOrConnecting(twitchEventSubClient)
    THEN /\ connectOutcome' = "noop"
         /\ UNCHANGED <<readyState, twitchEventSubClient>>
    ELSE /\ Created < MaxSockets
         /\ readyState' = [readyState EXCEPT ![Created + 1] = "CONNECTING"]
         /\ twitchEventSubClient' = Created + 1
         /\ connectOutcome' = "created"

\* index.ts, httpServer.listen callback: the startup connect.
StartupConnect ==
    /\ ~started
    /\ started' = TRUE
    /\ Connect
    /\ lastOp' = "StartupConnect"
    /\ UNCHANGED <<welcomed, twitchEventSubSessionId, timers>>
    /\ UNCHANGED <<authVars, raceVars, betVars, otherVars>>

\* authRoutes.ts /twitch/callback after exchangeCodeForTokens returned true.
\* (The callback is an outside event: it is not taken when the socket it may
\* create is needed by a pending reconnect timer.)
AuthCallbackSuccess ==
    /\ started
    /\ Created + timers < MaxSockets
    /\ lastOp' = "AuthCallbackSuccess"
    /\ IF \/ /\ twitchEventSubClient # Null
             /\ ReportedState(twitchEventSubClient) # "OPEN"
             /\ ReportedState(twitchEventSubClient) # "CONNECTING"
          \/ twitchEventSubClient = Null
       THEN Connect
       ELSE /\ connectOutcome' = "none"
            /\ UNCHANGED <<readyState, twitchEventSubClient>>
    /\ UNCHANGED <<welcomed, twitchEventSubSessionId, timers, started>>
    /\ UNCHANGED <<authVars, raceVars, betVars, otherVars>>

\* The reconnect timer set by onclose fires.
ReconnectTimerFires ==
    /\ timers > 0
    /\ timers' = timers - 1
    /\ Connect
    /\ lastOp' = "ReconnectTimerFires"
    /\ UNCHANGED <<welcomed, twitchEventSubSessionId, started>>
    /\ UNCHANGED <<authVars, raceVars, betVars, otherVars>>

\* onopen: the handshake completed; the handler only logs.
SocketOpen(s) ==
    /\ readyState[s] = "CONNECTING"
    /\ readyState' = [readyState EXCEPT ![s] = "OPEN"]
    /\ lastOp' = "SocketOpen"
    /\ connectOutcome' = "none"
    /\ UNCHANGED <<welcomed, twitchEventSubClient, twitchEventSubSessionId, timers, started>>
    /\ UNCHANGED <<authVars, raceVars, betVars, otherVars>>

\* the two versions of TwitchEventSub.ts: part_004 subscribes to
\* 'channel.chat.message', part_003 to the channel point redemptions
Variants == {"chat", "betting"}

\* mutant of WelcomeSubscribeCalls: the registrar is invoked twice
WelcomeSubscribeCallsTwice(variant, id) == <<id, id>>

\* onmessage, case 'session_welcome': createEventSubSubscription is called
\* once, for the one event type of the variant, with the id just stored, when
\* YOUR_BROADCASTER_ID and the id are set (part_004 lines 121-139) and, in the
\* betting variant, CHANNEL_POINT_REWARD_ID_FOR_BETS too (part_003 lines
\* 273-283); otherwise a warning is logged.
WelcomeSubscribeCalls(variant, id) ==
    IF boot.broadcasterId /\ id # Null /\ (variant = "betting" => boot.rewardId)
    THEN <<id>>
    ELSE <<>>

\* onmessage, case 'session_welcome': the module's session id is overwritten
\* and the subscription of the new session is requested.
SessionWelcome(s) ==
    /\ readyState[s] \in {"OPEN", "CLOSING"}
    /\ ~welcomed[s]
    /\ welcomed' = [welcomed EXCEPT ![s] = TRUE]
    /\ twitchEventSubSessionId' = SessionIdOf(s)
    /\ \E variant \in Variants :
          LET made == WelcomeSubscribeCalls(variant, twitchEventSubSessionId') IN
          /\ subscribeCalls' = [subscribeCalls EXCEPT ![s] = @ \o made]
          /\ subscription' = [subscription EXCEPT
                                 ![s] = IF made = <<>> THEN "skipped" ELSE "requested"]
    /\ lastOp' = "SessionWelcome"
    /\ connectOutcome' = "none"
    /\ UNCHANGED <<readyState, twitchEventSubClient, timers, started>>
    /\ UNCHANGED <<authVars, raceVars, betVars, posts, delivery, shutdownVars>>

\* the message types the switch does nothing with but log
IgnoredKinds == {"session_keepalive", "revocation", "unknown"}

\* mutant of AfterIgnoredMessage: the socket is closed on such a message
AfterIgnoredMessageCloses(rs) ==
    IF twitchEventSubClient # Null THEN [rs EXCEPT ![twitchEventSubClient] = "CLOSING"] ELSE rs

\* onmessage, cases 'session_keepalive', 'revocation' and default: no statement
\* touches the socket
AfterIgnoredMessage(rs) == rs

\* onmessage with a session_keepalive, a revocation or a message of a type the
\* switch does not know, delivered on socket s.
IgnoredMessage(s, kind) ==
    /\ readyState[s] \in {"OPEN", "CLOSING"}
    /\ readyState' = AfterIgnoredMessage(readyState)
    /\ lastOp' = "IgnoredMessage"
    /\ connectOutcome' = "none"
    /\ UNCHANGED <<welcomed, twitchEventSubClient, twitchEventSubSessionId, timers, started>>
    /\ UNCHANGED <<authVars, raceVars, betVars, otherVars>>

\* WebSocket.close(1000, reason) of the ws library, called on socket c.
WsClose(rs, c) ==
    IF rs[c] = "OPEN" THEN [rs EXCEPT ![c] = "CLOSING"]
    ELSE IF rs[c] = "CONNECTING" THEN [rs EXCEPT ![c] = "ABORTING"]
    ELSE rs

\* onmessage, case 'session_reconnect', delivered on socket s: closes the socket
\* the module variable references.
SessionReconnect(s) ==
    /\ readyState[s] \in {"OPEN", "CLOSING"}
    /\ welcomed[s]
    /\ readyState' = IF twitchEventSubClient # Null
                     THEN WsClose(readyState, twitchEventSubClient)
                     ELSE readyState
    /\ lastOp' = "SessionReconnect"
    /\ connectOutcome' = "none"
    /\ UNCHANGED <<welcomed, twitchEventSubClient, twitchEventSubSessionId, timers, started>>
    /\ UNCHANGED <<authVars, raceVars, betVars, otherVars>>

\* mutant of ScheduleReconnect: a timer is set for every close code
ScheduleReconnectAlways(code) == timers + 1

\* onclose, the reconnect decision: setTimeout(connect, 5000) unless code 1000.
ScheduleReconnect(code) == IF code # NORMAL_CLOSURE THEN timers + 1 ELSE timers

\* onclose of socket s with close code `code`: both module variables are
\* cleared whichever socket they belong to.  (A close that sets a timer is an
\* outside event: it is not taken when no socket is left for the timer's
\* connect call, so that the bounds never stop a timer from firing.)
SocketClosed(s, code) ==
    /\ \/ readyState[s] \in {"OPEN", "CLOSING"}
       \/ readyState[s] \in {"CONNECTING", "ABORTING"} /\ code = ABNORMAL_CLOSURE
    /\ ScheduleReconnect(code) <= MaxTimers
    /\ Created + ScheduleReconnect(code) <= MaxSockets
    /\ readyState' = [readyState EXCEPT ![s] = "CLOSED"]
    /\ twitchEventSubSessionId' = Null
    /\ twitchEventSubClient' = Null
    /\ timers' = ScheduleReconnect(code)
    /\ lastOp' = "SocketClosed"
    /\ connectOutcome' = "none"
    /\ UNCHANGED <<welcomed, started>>
    /\ UNCHANGED <<authVars, raceVars, betVars, otherVars>>

\* The close event of a socket on which close() was called: the ws library
\* emits it when the closing handshake ends or its timeout destroys the socket.
CloseCompletes ==
    \E s \in Sockets, code \in CloseCodes :
        readyState[s] \in {"CLOSING", "ABORTING"} /\ SocketClosed(s, code)

SessionInit ==
    /\ readyState = [s \in Sockets |-> "NONE"]
    /\ welcomed = [s \in Sockets |-> FALSE]
    /\ twitchEventSubClient = Null
    /\ twitchEventSubSessionId = Null
    /\ timers = 0
    /\ started = FALSE
    /\ lastOp = "init"
    /\ connectOutcome = "none"

SessionNext ==
    \/ StartupConnect
    \/ AuthCallbackSuccess
    \/ ReconnectTimerFires
    \/ \E s \in Sockets : SocketOpen(s)
    \/ \E s \in Sockets : SessionWelcome(s)
    \/ \E s \in Sockets : SessionReconnect(s)
    \/ \E s \in Sockets, code \in CloseCodes : SocketClosed(s, code)
    \/ \E s \in Sockets, kind \in IgnoredKinds : IgnoredMessage(s, kind)


\* ================================================================ credential manager

\* ---------------------------------------------------------------- bounds
MaxCalls == 1
StartTime == 1000
TickStep == 400
MaxNow == 1500

\* isAccessTokenExpired: the 300 second buffer
EXPIRY_BUFFER == 300

\* token values the upstream issues
Tokens == {1, 2}
\* the refresh token the upstream issues together with access token a
PairedRefresh(a) == a
\* expires_in values of token responses (seconds); 100 lies inside the buffer
ExpiresInValues == {100, 700}
\* expires_in values of /oauth2/validate; 0 stands for a response without the field
ValidateExpiresInValues == {0, 100, 700}

\* the in-memory credential record
Rec == [accessToken |-> accessToken, refreshToken |-> refreshToken, expiresAt |-> expiresAt]

\* mutant of ClearedRecord: the refresh token is not wiped
ClearedRecordKeepsRefresh ==
    [accessToken |-> Null, refreshToken |-> refreshToken, expiresAt |-> Null]

\* clearTokens: the three assignments
ClearedRecord == [accessToken |-> Null, refreshToken |-> Null, expiresAt |-> Null]

SetRecord(r) ==
    /\ accessToken' = r.accessToken
    /\ refreshToken' = r.refreshToken
    /\ expiresAt' = r.expiresAt

\* mutant of LoadTokensFromFile: expiresAt is not restored
LoadTokensFromFileDropsExpiry(f) ==
    IF f = <<>> THEN ClearedRecord
    ELSE [accessToken |-> f[1].accessToken, refreshToken |-> f[1].refreshToken,
          expiresAt |-> Null]

\* loadTokensFromFile: a missing or unreadable file gives an empty record;
\* otherwise each field is taken if truthy and expiresAt only if it is a number.
LoadTokensFromFile(f) ==
    IF f = <<>> THEN ClearedRecord
    ELSE [accessToken  |-> IF f[1].accessToken # Null THEN f[1].accessToken ELSE Null,
          refreshToken |-> IF f[1].refreshToken # Null THEN f[1].refreshToken ELSE Null,
          expiresAt    |-> IF f[1].expiresAt # Null THEN f[1].expiresAt ELSE Null]

\* isAccessTokenExpired, on expiresAt value e at time t
IsAccessTokenExpired(e, t) ==
    IF e = Null THEN TRUE ELSE t >= e - EXPIRY_BUFFER

\* mutant of NoAccessToken: the check is missing
NoAccessTokenCheckMissing(r) == FALSE

\* getValidAccessToken line 267 / initialize line 114: `!this.accessToken`
NoAccessToken(r) == r.accessToken = Null

\* An async operation: where it is suspended (pc), what it was called for and
\* what it has done so far.  `saving` is the tokenData of the saveTokensToFile
\* it awaits while pc is one of SavePcs.
NoCall ==
    [op |-> "none", pc |-> "none", callTime |-> 0, path |-> "none",
     refreshOutcome |-> "none", refreshReqs |-> 0, validateReqs |-> 0,
     respAccess |-> Null, respRefresh |-> Null, respExpiresAt |-> Null,
     saving |-> ClearedRecord]

NewCall(op, path) ==
    [NoCall EXCEPT !.op = op, !.pc = "running", !.callTime = now, !.path = path]

SavePcs == {"validate_save", "refresh_save", "exchange_save"}

NoRet == [call |-> NoCall, token |-> Null, ok |-> FALSE]

\* a further async operation can be started
CanStart == BagCardinality(calls) < MaxCalls

\* The operation that was suspended as `old` (NoCall: just called) returns
\* `token` / `ok` to its caller.
Finish(old, cr, token, ok) ==
    /\ calls' = calls (-) SetToBag({old})
    /\ ret' = [call |-> cr, token |-> token, ok |-> ok]
    /\ initialized' = (initialized \/ cr.op = "init")

\* The operation that was suspended as `old` (NoCall: just called) awaits again.
Suspend(old, cr) ==
    /\ calls' = (calls (-) SetToBag({old})) (+) SetToBag({cr})
    /\ ret' = NoRet
    /\ UNCHANGED initialized

\* mutant of AfterRefreshFailure: the catch block forgets clearTokens
AfterRefreshFailureKeeps(r) == r

\* refreshAccessToken, both failure branches (no refresh token stored, request
\* rejected): clearTokens() and return false
AfterRefreshFailure(r) == ClearedRecord

\* What the caller does once refreshAccessToken returned false: getValidAccessToken
\* calls clearTokens again and returns null, initialize just returns.  Each
\* clearTokens starts a write of the record it leaves, which nobody awaits.
RefreshFailed(old, cr, r) ==
    LET r1 == AfterRefreshFailure(r)
        r2 == IF cr.op = "gva" THEN ClearedRecord ELSE r1
    IN /\ SetRecord(r2)
       /\ writes' = writes \cup {r1, r2}
       /\ Finish(old, cr, Null, FALSE)

\* refreshAccessToken up to its first await, entered with record r: without a
\* refresh token it fails at once, otherwise the POST is sent.
RefreshStart(old, cr, r) ==
    IF r.refreshToken = Null
    THEN RefreshFailed(old, [cr EXCEPT !.refreshOutcome = "no_refresh_token"], r)
    ELSE /\ SetRecord(r)
         /\ UNCHANGED writes
         /\ Suspend(old, [cr EXCEPT !.pc = "refresh_wait", !.refreshReqs = @ + 1])

\* validateToken up to its first await: the GET is sent (the caller checked
\* that an access token is present).
ValidateStart(old, cr, r) ==
    /\ SetRecord(r)
    /\ UNCHANGED writes
    /\ Suspend(old, [cr EXCEPT !.pc = "validate_wait", !.validateReqs = @ + 1])

\* initialize: load tokens.json, then refresh an expired token or validate a
\* fresh one.  startServer awaits it before anything else can call the manager.
Initialize ==
    /\ ~initialized
    /\ calls = EmptyBag
    /\ LET r == LoadTokensFromFile(file) IN
       IF NoAccessToken(r)
       THEN /\ SetRecord(r)
            /\ UNCHANGED writes
            /\ Finish(NoCall, NewCall("init", "none"), Null, FALSE)
       ELSE IF IsAccessTokenExpired(r.expiresAt, now)
       THEN RefreshStart(NoCall, NewCall("init", "expired"), r)
       ELSE ValidateStart(NoCall, NewCall("init", "fresh"), r)
    /\ UNCHANGED <<file, now, sessionVars, raceVars, betVars, otherVars>>

\* getValidAccessToken up to its first await: the code.
GetValidAccessTokenBody ==
    IF NoAccessToken(Rec)
    THEN /\ UNCHANGED <<accessToken, refreshToken, expiresAt, writes>>
         /\ Finish(NoCall, NewCall("gva", "none"), Null, FALSE)
    ELSE IF IsAccessTokenExpired(expiresAt, now)
    THEN RefreshStart(NoCall, NewCall("gva", "expired"), Rec)
    ELSE ValidateStart(NoCall, NewCall("gva", "fresh"), Rec)

\* getValidAccessToken up to its first await.
GetValidAccessToken ==
    /\ initialized
    /\ CanStart
    /\ GetValidAccessTokenBody
    /\ UNCHANGED <<file, now, sessionVars, raceVars, betVars, otherVars>>

\* validateToken after the GET: a success with expires_in updates expiresAt and
\* awaits the save; a success without it returns true; a failure returns false
\* and the caller goes on to refreshAccessToken.
ValidateResponse(cr, valid, expiresIn) ==
    /\ cr \in BagToSet(calls)
    /\ cr.pc = "validate_wait"
    /\ IF valid
       THEN IF expiresIn # 0
            THEN LET r == [Rec EXCEPT !.expiresAt = now + expiresIn] IN
                 /\ SetRecord(r)
                 /\ UNCHANGED writes
                 /\ Suspend(cr, [cr EXCEPT !.pc = "validate_save", !.saving = r])
            ELSE /\ UNCHANGED <<accessToken, refreshToken, expiresAt, writes>>
                 /\ Finish(cr, cr, IF cr.op = "gva" THEN accessToken ELSE Null, TRUE)
       ELSE RefreshStart(cr, cr, Rec)
    /\ UNCHANGED <<file, now, sessionVars, raceVars, betVars, otherVars>>

\* refreshAccessToken, the success branch: the refresh token is replaced only
\* when the response carries one.
RefreshedRecord(r, access, refresh, expiresIn) ==
    [accessToken  |-> access,
     refreshToken |-> IF refresh # Null THEN refresh ELSE r.refreshToken,
     expiresAt    |-> now + expiresIn]

\* refreshAccessToken after the POST.
RefreshResponse(cr, accepted, access, refresh, expiresIn) ==
    /\ cr \in BagToSet(calls)
    /\ cr.pc = "refresh_wait"
    /\ IF accepted
       THEN LET r == RefreshedRecord(Rec, access, refresh, expiresIn) IN
            /\ SetRecord(r)
            /\ UNCHANGED writes
            /\ Suspend(cr, [cr EXCEPT !.pc = "refresh_save", !.refreshOutcome = "refreshed",
                                      !.respAccess = access, !.respRefresh = refresh,
                                      !.respExpiresAt = now + expiresIn, !.saving = r])
       ELSE RefreshFailed(cr, [cr EXCEPT !.refreshOutcome = "rejected"], Rec)
    /\ UNCHANGED <<file, now, sessionVars, raceVars, betVars, otherVars>>

\* exchangeCodeForTokens up to its first await: the POST is sent.
ExchangeCodeForTokens ==
    /\ initialized
    /\ CanStart
    /\ Suspend(NoCall, [NewCall("exchange", "none") EXCEPT !.pc = "exchange_wait"])
    /\ UNCHANGED <<accessToken, refreshToken, expiresAt, writes, file, now, sessionVars, raceVars, betVars, otherVars>>

\* exchangeCodeForTokens, the success branch: all three fields are replaced.
ExchangedRecord(r, access, refresh, expiresIn) ==
    [accessToken |-> access, refreshToken |-> refresh, expiresAt |-> now + expiresIn]

\* exchangeCodeForTokens after the POST.
ExchangeResponse(cr, accepted, access, refresh, expiresIn) ==
    /\ cr \in BagToSet(calls)
    /\ cr.pc = "exchange_wait"
    /\ IF accepted
       THEN LET r == ExchangedRecord(Rec, access, refresh, expiresIn) IN
            /\ SetRecord(r)
            /\ UNCHANGED writes
            /\ Suspend(cr, [cr EXCEPT !.pc = "exchange_save",
                                      !.respAccess = access, !.respRefresh = refresh,
                                      !.respExpiresAt = now + expiresIn, !.saving = r])
       ELSE /\ SetRecord(ClearedRecord)
            /\ writes' = writes \cup {ClearedRecord}
            /\ Finish(cr, cr, Null, FALSE)
    /\ UNCHANGED <<file, now, sessionVars, raceVars, betVars, otherVars>>

\* mutant of SaveNotAwaited: clearTokens forgets to persist
SaveNotAwaitedDropped(r) == writes

\* clearTokens line 263: saveTokensToFile() builds tokenData from the record r
\* and starts fs.writeFile; clearTokens does not await it
SaveNotAwaited(r) == writes \cup {r}

\* clearTokens called by GET /auth/reauth and POST /api/test/reauth.
ClearTokens ==
    /\ initialized
    /\ SetRecord(ClearedRecord)
    /\ writes' = SaveNotAwaited(ClearedRecord)
    /\ ret' = NoRet
    /\ UNCHANGED <<calls, initialized, file, now, sessionVars, raceVars, betVars, otherVars>>

\* The fs.writeFile an operation awaits settles: tokens.json holds its
\* tokenData and the operation returns (saveTokensToFile is the last await of
\* validateToken, refreshAccessToken and exchangeCodeForTokens, and their
\* callers return without a further await).
SaveCompletes(cr) ==
    /\ cr \in BagToSet(calls)
    /\ cr.pc \in SavePcs
    /\ file' = <<cr.saving>>
    /\ Finish(cr, cr, IF cr.op = "gva" THEN accessToken ELSE Null, TRUE)
    /\ UNCHANGED <<accessToken, refreshToken, expiresAt, writes, now, sessionVars, raceVars, betVars, otherVars>>

\* An fs.writeFile nobody awaits (clearTokens) settles.
WriteCompletes(w) ==
    /\ w \in writes
    /\ file' = <<w>>
    /\ writes' = writes \ {w}
    /\ ret' = NoRet
    /\ UNCHANGED <<accessToken, refreshToken, expiresAt, calls, initialized, now, sessionVars, raceVars, betVars, otherVars>>

\* The clock advances.
Tick ==
    /\ now + TickStep <= MaxNow
    /\ now' = now + TickStep
    /\ ret' = NoRet
    /\ UNCHANGED <<accessToken, refreshToken, expiresAt, file, writes, calls, initialized,
                   sessionVars, raceVars, betVars, otherVars>>

\* tokens.json at start-up: missing, or a record an earlier run saved after an
\* exchange (still fresh, or inside the expiry buffer by now).
InitialFiles ==
    { <<>>,
      <<[accessToken |-> 1, refreshToken |-> 1, expiresAt |-> StartTime + 700]>>,
      <<[accessToken |-> 1, refreshToken |-> 1, expiresAt |-> StartTime + 100]>> }

AuthInit ==
    /\ accessToken = Null
    /\ refreshToken = Null
    /\ expiresAt = Null
    /\ file \in InitialFiles
    /\ writes = {}
    /\ calls = EmptyBag
    /\ ret = NoRet
    /\ initialized = FALSE
    /\ now = StartTime

AuthNext ==
    \/ Initialize
    \/ GetValidAccessToken
    \/ \E cr \in BagToSet(calls), valid \in BOOLEAN, e \in ValidateExpiresInValues :
           ValidateResponse(cr, valid, e)
    \/ \E cr \in BagToSet(calls), accepted \in BOOLEAN, a \in Tokens, r \in BOOLEAN,
          e \in ExpiresInValues :
           RefreshResponse(cr, accepted, a, IF r THEN PairedRefresh(a) ELSE Null, e)
    \/ ExchangeCodeForTokens
    \/ \E cr \in BagToSet(calls), accepted \in BOOLEAN, a \in Tokens, e \in ExpiresInValues :
           ExchangeResponse(cr, accepted, a, PairedRefresh(a), e)
    \/ ClearTokens
    \/ \E cr \in BagToSet(calls) : SaveCompletes(cr)
    \/ \E w \in writes : WriteCompletes(w)
    \/ Tick

\* ---------------------------------------------------------------- bounds
MaxOverlap == 2

\* getValidAccessToken called while up to MaxOverlap - 1 other calls are
\* suspended (createEventSubSubscription, the API routes and TwitchApiService
\* call it independently of each other).
OverlappingGetValidAccessToken ==
    /\ initialized
    /\ BagCardinality(calls) < MaxOverlap
    /\ GetValidAccessTokenBody
    /\ UNCHANGED <<file, now, sessionVars, raceVars, betVars, otherVars>>

\* overlapping getValidAccessToken calls after start-up, with no
\* re-authorization and a clock that stands still
OverlapNext ==
    \/ Initialize
    \/ OverlappingGetValidAccessToken
    \/ \E cr \in BagToSet(calls), valid \in BOOLEAN, e \in ValidateExpiresInValues :
           ValidateResponse(cr, valid, e)
    \/ \E cr \in BagToSet(calls), accepted \in BOOLEAN, a \in Tokens, r \in BOOLEAN,
          e \in ExpiresInValues :
           RefreshResponse(cr, accepted, a, IF r THEN PairedRefresh(a) ELSE Null, e)
    \/ \E cr \in BagToSet(calls) : SaveCompletes(cr)
    \/ \E w \in writes : WriteCompletes(w)

\* ================================================================ race registration

\* ---------------------------------------------------------------- bounds
MaxParticipants == 2
MaxMs == 1

\* Strings the code inspects are sequences of one-character strings.
\* String.prototype.toLowerCase on the letters that occur in the inputs
LowerChar(c) ==
    CASE c = "R" -> "r" [] c = "E" -> "e" [] c = "G" -> "g" [] c = "I" -> "i"
      [] c = "S" -> "s" [] c = "T" -> "t" [] c = "A" -> "a" [] c = "B" -> "b"
      [] OTHER -> c

ToLowerCase(t) == [i \in 1..Len(t) |-> LowerChar(t[i])]

RECURSIVE TrimStart(_)
TrimStart(t) == IF t # <<>> /\ Head(t) = " " THEN TrimStart(Tail(t)) ELSE t

RECURSIVE TrimEnd(_)
TrimEnd(t) == IF t # <<>> /\ t[Len(t)] = " " THEN TrimEnd(SubSeq(t, 1, Len(t) - 1)) ELSE t

\* String.prototype.trim
Trim(t) == TrimEnd(TrimStart(t))

\* String.prototype.startsWith
StartsWith(t, prefix) == Len(t) >= Len(prefix) /\ SubSeq(t, 1, Len(prefix)) = prefix

REGISTER_COMMAND == <<"!", "r", "e", "g", "i", "s", "t", "e", "r">>

\* onmessage notification, line 149
IsRegisterCommand(text) ==
    StartsWith(ToLowerCase(Trim(text)), ToLowerCase(REGISTER_COMMAND))

\* chat texts: the command, the command in capitals between spaces, a longer
\* word with the command as prefix, the word without "!", the command not at
\* the start
Texts ==
    { <<"!", "r", "e", "g", "i", "s", "t", "e", "r">>,
      <<" ", "!", "R", "E", "G", "I", "S", "T", "E", "R", " ">>,
      <<"!", "r", "e", "g", "i", "s", "t", "e", "r", "e", "d">>,
      <<"r", "e", "g", "i", "s", "t", "e", "r">>,
      <<"a", " ", "!", "r", "e", "g", "i", "s", "t", "e", "r">> }

Rex == <<"R", "e", "x">>
rex == <<"r", "e", "x">>
Bob == <<"B", "o", "b">>

\* chatters as Twitch describes them: id, display name, login
ChatUsers ==
    { [userId |-> <<"chat", 42>>, userName |-> Rex, userLogin |-> rex],
      [userId |-> <<"chat", 43>>, userName |-> Bob, userLogin |-> ToLowerCase(Bob)] }

\* `username` of the test endpoints
TestNames == {Rex, rex, Bob}

\* winningRatName of the request body: missing, empty, or a name
WinnerNames == {<<>>, Rex, Bob}

NoUser == <<"none", 0>>

NoRaceOp ==
    [op |-> "none", userId |-> NoUser, userName |-> <<>>, command |-> FALSE,
     before |-> <<>>, openBefore |-> FALSE]

\* what a handler records about itself: its inputs and the state it found
RaceOp(op, userId, userName, command) ==
    [op |-> op, userId |-> userId, userName |-> userName, command |-> command,
     before |-> participants, openBefore |-> raceIsOpen]

UserIds(list) == {list[i].userId : i \in 1..Len(list)}

\* participantNames = participants.current.map(p => p.userName)
ParticipantNames(list) == [i \in 1..Len(list) |-> list[i].userName]

\* handleRegistrationCommand line 200: participantsRef.current.some(...)
AlreadyRegistered(list, userId) == \E i \in 1..Len(list) : list[i].userId = userId

\* mutant of NewParticipantEvents: two events are emitted
NewParticipantEventsTwice(userName) ==
    <<[type |-> "new_participant", userName |-> userName],
      [type |-> "new_participant", userName |-> userName]>>

\* emitNewParticipant
NewParticipantEvents(userName) == <<[type |-> "new_participant", userName |-> userName]>>

\* handleRegistrationCommand
HandleRegistrationCommand(chatEvent) ==
    IF ~raceIsOpen \/ AlreadyRegistered(participants, chatEvent.userId)
    THEN /\ UNCHANGED participants
         /\ emitted' = <<>>
    ELSE /\ participants' = Append(participants, chatEvent)
         /\ emitted' = NewParticipantEvents(chatEvent.userName)

\* onmessage, case 'notification': a channel.chat.message notification from
\* chatter u with the given text; notifications of another type are ignored.
ChatNotificationEffect(u, text, isChatMessage) ==
    /\ Len(participants) < MaxParticipants
    /\ raceOp' = RaceOp("ChatNotification", u.userId, u.userName,
                        isChatMessage /\ IsRegisterCommand(text))
    /\ IF isChatMessage /\ IsRegisterCommand(text)
       THEN HandleRegistrationCommand(u)
       ELSE UNCHANGED participants /\ emitted' = <<>>

\* the same handler seen from the registration alone: which socket delivered
\* the message is left open
ChatNotification(u, text, isChatMessage) ==
    /\ ChatNotificationEffect(u, text, isChatMessage)
    /\ UNCHANGED <<raceIsOpen, msNow, sessionVars, authVars, betVars, otherVars>>

\* POST /api/test/chat-message: the mock event carries the id user_<Date.now()>
\* and goes to handleRegistrationCommand whatever the message says.
TestChatMessage(username, text) ==
    /\ Len(participants) < MaxParticipants
    /\ raceOp' = RaceOp("TestChatMessage", <<"user", msNow>>, username, IsRegisterCommand(text))
    /\ HandleRegistrationCommand([userId |-> <<"user", msNow>>, userName |-> username,
                                  userLogin |-> ToLowerCase(username)])
    /\ UNCHANGED <<raceIsOpen, msNow, sessionVars, authVars, betVars, otherVars>>

\* POST /api/test/add-participant: duplicates are looked for by name, the new
\* entry gets the id test_<Date.now()>.
TestAddParticipant(username) ==
    /\ Len(participants) < MaxParticipants
    /\ raceOp' = RaceOp("TestAddParticipant", <<"test", msNow>>, username, FALSE)
    /\ IF ~raceIsOpen
       THEN UNCHANGED participants /\ emitted' = <<>>
       ELSE IF \E i \in 1..Len(participants) :
                   \/ ToLowerCase(participants[i].userLogin) = ToLowerCase(username)
                   \/ ToLowerCase(participants[i].userName) = ToLowerCase(username)
       THEN UNCHANGED participants /\ emitted' = <<>>
       ELSE /\ participants' = Append(participants,
                                      [userId |-> <<"test", msNow>>, userName |-> username,
                                       userLogin |-> ToLowerCase(username)])
            /\ emitted' = NewParticipantEvents(username)
    /\ UNCHANGED <<raceIsOpen, msNow, sessionVars, authVars, betVars, otherVars>>

\* mutant of OpenedParticipants: the list is kept
OpenedParticipantsKept == participants

\* POST /api/registration/open line 60
OpenedParticipants == <<>>

\* POST /api/registration/open
RegistrationOpen ==
    /\ raceOp' = RaceOp("RegistrationOpen", NoUser, <<>>, FALSE)
    /\ raceIsOpen' = TRUE
    /\ participants' = OpenedParticipants
    /\ emitted' = <<[type |-> "registration_status", isOpen |-> TRUE]>>
    /\ UNCHANGED <<msNow, sessionVars, authVars, betVars, otherVars>>

\* POST /api/registration/close
RegistrationClose ==
    /\ raceOp' = RaceOp("RegistrationClose", NoUser, <<>>, FALSE)
    /\ raceIsOpen' = FALSE
    /\ emitted' = <<[type |-> "registration_status", isOpen |-> FALSE]>>
    /\ UNCHANGED <<participants, msNow, sessionVars, authVars, betVars, otherVars>>

\* mutant of WinnerEventNames: the names are read after the list was cleared
WinnerEventNamesAfterClear(list) == <<>>

\* POST /api/race/winner lines 97-100: the names passed to emitRaceWinner
WinnerEventNames(list) == ParticipantNames(list)

\* POST /api/race/winner: a missing or empty name is answered with 400.
RaceWinner(winningRatName) ==
    /\ raceOp' = RaceOp("RaceWinner", NoUser, winningRatName, FALSE)
    /\ IF winningRatName = <<>>
       THEN /\ emitted' = <<>>
            /\ UNCHANGED <<raceIsOpen, participants>>
       ELSE /\ raceIsOpen' = FALSE
            /\ emitted' = <<[type |-> "race_winner_determined",
                             winningRatName |-> winningRatName,
                             participants |-> WinnerEventNames(participants)]>>
            /\ participants' = <<>>
    /\ UNCHANGED <<msNow, sessionVars, authVars, betVars, otherVars>>

\* a millisecond passes
MsTick ==
    /\ msNow < MaxMs
    /\ msNow' = msNow + 1
    /\ raceOp' = NoRaceOp
    /\ emitted' = <<>>
    /\ UNCHANGED <<raceIsOpen, participants, sessionVars, authVars, betVars, otherVars>>

\* startServer lines 25-26
RaceInit ==
    /\ raceIsOpen = FALSE
    /\ participants = <<>>
    /\ msNow = 0
    /\ raceOp = NoRaceOp
    /\ emitted = <<>>

RaceNext ==
    \/ \E u \in ChatUsers, text \in Texts, isChatMessage \in BOOLEAN :
           ChatNotification(u, text, isChatMessage)
    \/ \E username \in TestNames, text \in Texts : TestChatMessage(username, text)
    \/ \E username \in TestNames : TestAddParticipant(username)
    \/ RegistrationOpen
    \/ RegistrationClose
    \/ \E w \in WinnerNames : RaceWinner(w)
    \/ MsTick

\* ================================================================ betting variant

\* ---------------------------------------------------------------- bounds
MaxBets == 2

\* config: the reward whose redemptions are bets
CHANNEL_POINT_REWARD_ID_FOR_BETS == "R1"

\* reward ids redemptions arrive with
RewardIds == {"R1", "R2"}

\* user_input of a redemption
UserInputs == {rex, Bob}

\* winningRatName of the request body: missing (undefined), empty, or a name
BetWinnerInputs ==
    { [present |-> FALSE, name |-> <<>>],
      [present |-> TRUE, name |-> <<>>],
      [present |-> TRUE, name |-> Rex] }

\* String.prototype.includes
Includes(t, sub) == \E i \in 0..(Len(t) - Len(sub)) : SubSeq(t, i + 1, i + Len(sub)) = sub

RECURSIVE Filter(_, _)
\* currentBets.current.filter(bet => bet.userInput.toLowerCase().includes(name.toLowerCase()))
Filter(list, name) ==
    IF list = <<>> THEN <<>>
    ELSE IF Includes(ToLowerCase(Head(list).userInput), ToLowerCase(name))
         THEN <<Head(list)>> \o Filter(Tail(list), name)
         ELSE Filter(Tail(list), name)

NoBetOp ==
    [op |-> "none", userId |-> NoUser, rewardId |-> "", present |-> FALSE,
     before |-> <<>>, openBefore |-> FALSE]

BetOp(op, userId, rewardId, present) ==
    [op |-> op, userId |-> userId, rewardId |-> rewardId, present |-> present,
     before |-> currentBets, openBefore |-> bettingIsOpen]

\* mutant of AcceptsBets: bets are taken while betting is closed
AcceptsBetsAlways == TRUE

\* onmessage notification, line 124 of the betting variant
AcceptsBets == bettingIsOpen

\* mutant of IsBettingReward: every reward counts
IsBettingRewardAny(rewardId) == TRUE

\* onmessage notification, line 123 of the betting variant
IsBettingReward(rewardId) ==
    CHANNEL_POINT_REWARD_ID_FOR_BETS # "" /\ rewardId = CHANNEL_POINT_REWARD_ID_FOR_BETS

\* onmessage, case 'notification' of the betting variant: a redemption by user u
\* of reward rewardId; notifications of another subscription type are ignored.
RedemptionNotification(u, rewardId, userInput, isRedemption) ==
    /\ Len(currentBets) < MaxBets
    /\ betOp' = BetOp(IF isRedemption THEN "RedemptionNotification" ELSE "OtherNotification",
                      u.userId, rewardId, TRUE)
    /\ IF isRedemption /\ IsBettingReward(rewardId) /\ AcceptsBets
       THEN /\ currentBets' = Append(currentBets,
                                     [userId |-> u.userId, userName |-> u.userName,
                                      userLogin |-> u.userLogin, rewardId |-> rewardId,
                                      userInput |-> userInput])
            /\ betEmitted' = <<[type |-> "new_bet_placed", userName |-> u.userName,
                                betInput |-> userInput]>>
       ELSE /\ UNCHANGED currentBets
            /\ betEmitted' = <<>>
    /\ UNCHANGED <<bettingIsOpen, sessionVars, authVars, raceVars, otherVars>>

\* mutant of OpenedBets: the bets are kept
OpenedBetsKept == currentBets

\* POST /api/bets/open, line 134
OpenedBets == <<>>

\* POST /api/bets/open
BetsOpen ==
    /\ betOp' = BetOp("BetsOpen", NoUser, "", TRUE)
    /\ bettingIsOpen' = TRUE
    /\ currentBets' = OpenedBets
    /\ betEmitted' = <<[type |-> "betting_status", isOpen |-> TRUE]>>
    /\ UNCHANGED <<sessionVars, authVars, raceVars, otherVars>>

\* POST /api/bets/close
BetsClose ==
    /\ betOp' = BetOp("BetsClose", NoUser, "", TRUE)
    /\ bettingIsOpen' = FALSE
    /\ betEmitted' = <<[type |-> "betting_status", isOpen |-> FALSE]>>
    /\ UNCHANGED <<currentBets, sessionVars, authVars, raceVars, otherVars>>

\* POST /api/race/winner of the betting variant.  The 400 answer to a missing
\* or empty name is not followed by a return: with an empty name the handler
\* goes on (every input includes ""); with a missing one
\* winningRatName.toLowerCase() throws inside the filter callback as soon as
\* there is a bet, after betting was closed and before the list is cleared.
BetsRaceWinner(w) ==
    /\ betOp' = BetOp("BetsRaceWinner", NoUser, "", w.present)
    /\ bettingIsOpen' = FALSE
    /\ IF ~w.present /\ currentBets # <<>>
       THEN /\ UNCHANGED currentBets
            /\ betEmitted' = <<>>
       ELSE /\ betEmitted' = <<[type |-> "race_winner_determined",
                                winners |-> ParticipantNames(Filter(currentBets, w.name))]>>
            /\ currentBets' = <<>>
    /\ UNCHANGED <<sessionVars, authVars, raceVars, otherVars>>

\* startServer of the betting variant: betting closed, no bets
BetInit ==
    /\ bettingIsOpen = FALSE
    /\ currentBets = <<>>
    /\ betOp = NoBetOp
    /\ betEmitted = <<>>

BetNext ==
    \/ \E u \in ChatUsers, rewardId \in RewardIds, userInput \in UserInputs,
          isRedemption \in BOOLEAN :
           RedemptionNotification(u, rewardId, userInput, isRedemption)
    \/ BetsOpen
    \/ BetsClose
    \/ \E w \in BetWinnerInputs : BetsRaceWinner(w)

\* ================================================================ subscriptions and notifications

\* ---------------------------------------------------------------- bounds
MaxFeedSockets == 2

NoDelivery == [socket |-> Null, sessionId |-> Null, applied |-> FALSE]

\* createEventSubSubscription for the welcome of socket s, after
\* `await authManager.getValidAccessToken()`: without a token it logs and
\* returns; with one (the session id passed is never empty) it sends the GET
\* to /oauth2/validate whose result is only logged.
SubscriptionToken(s, hasToken) ==
    /\ subscription[s] = "requested"
    /\ subscription' = [subscription EXCEPT ![s] = IF hasToken THEN "validating" ELSE "no_token"]
    /\ lastOp' = "SubscriptionToken"
    /\ connectOutcome' = "none"
    /\ UNCHANGED <<readyState, welcomed, twitchEventSubClient, twitchEventSubSessionId,
                   timers, started>>
    /\ UNCHANGED <<subscribeCalls, posts, delivery, shutdownVars, authVars, raceVars, betVars>>

\* createEventSubSubscription after the GET settled, either way: the POST to
\* /helix/eventsub/subscriptions is sent with the session id the call was given.
\* A post records that id, the id the module holds and the state of the
\* socket at that moment.
SubscriptionPost(s) ==
    /\ subscription[s] = "validating"
    /\ posts' = [posts EXCEPT ![s] = Append(@, [sessionId |-> subscribeCalls[s][1],
                                                current   |-> twitchEventSubSessionId,
                                                socket    |-> readyState[s]])]
    /\ subscription' = [subscription EXCEPT ![s] = "posted"]
    /\ lastOp' = "SubscriptionPost"
    /\ connectOutcome' = "none"
    /\ UNCHANGED <<readyState, welcomed, twitchEventSubClient, twitchEventSubSessionId,
                   timers, started>>
    /\ UNCHANGED <<subscribeCalls, delivery, shutdownVars, authVars, raceVars, betVars>>

\* mutant of AfterPostRejected: the request is sent again
AfterPostRejectedRetries == "validating"

\* createEventSubSubscription, the catch block of the POST: it logs the error
\* and the function returns
AfterPostRejected == "rejected"

\* createEventSubSubscription after the POST settled: the subscription exists
\* or the request was rejected.  The upstream accepts a subscription only for
\* a session whose socket is connected.
SubscriptionSettles(s, outcome) ==
    /\ subscription[s] = "posted"
    /\ outcome = "created" => readyState[s] \in {"OPEN", "CLOSING"}
    /\ subscription' = [subscription EXCEPT
                           ![s] = IF outcome = "created" THEN "created" ELSE AfterPostRejected]
    /\ lastOp' = "SubscriptionSettles"
    /\ connectOutcome' = "none"
    /\ UNCHANGED <<readyState, welcomed, twitchEventSubClient, twitchEventSubSessionId,
                   timers, started>>
    /\ UNCHANGED <<subscribeCalls, posts, delivery, shutdownVars, authVars, raceVars, betVars>>

\* onmessage, case 'notification', delivered on socket s: the upstream sends
\* notifications of a subscription on the socket of the session it was created
\* for.  The handler does not look at the session id; `delivery` records which
\* one the module held and whether the list changed.
NotificationOn(s, u, text) ==
    /\ readyState[s] \in {"OPEN", "CLOSING"}
    /\ subscription[s] = "created"
    /\ ChatNotificationEffect(u, text, TRUE)
    /\ delivery' = [socket |-> s, sessionId |-> twitchEventSubSessionId,
                    applied |-> participants' # participants]
    /\ UNCHANGED <<raceIsOpen, msNow, subscribeCalls, subscription, posts, shutdownVars,
                   sessionVars, authVars, betVars>>

FeedInit ==
    /\ subscribeCalls = [s \in Sockets |-> <<>>]
    /\ subscription = [s \in Sockets |-> "none"]
    /\ posts = [s \in Sockets |-> <<>>]
    /\ delivery = NoDelivery

\* the socket life-cycle and the subscription calls of the welcomes.  At most
\* MaxFeedSockets sockets are used: a close or an OAuth callback is not taken
\* when it needs more, a timer that was set always finds a socket.
SubscribeNext ==
    \/ SessionNext /\ Created' + timers' <= MaxFeedSockets
    \/ \E s \in Sockets, hasToken \in BOOLEAN : SubscriptionToken(s, hasToken)
    \/ \E s \in Sockets : SubscriptionPost(s)
    \/ \E s \in Sockets, outcome \in {"rejected", "created"} : SubscriptionSettles(s, outcome)

\* the same with the notifications and the opening of registration
FeedNext ==
    \/ SubscribeNext
    \/ \E s \in Sockets, u \in ChatUsers, text \in Texts : NotificationOn(s, u, text)
    \/ RegistrationOpen

\* ================================================================ process shutdown

\* index.ts, the SIGINT/SIGTERM handler up to its first await: the referenced
\* socket is closed with 1000 only when it reports OPEN; no timer handle exists
\* to cancel.  `managed` is CHANNEL_POINT_REWARD_ID_FOR_BETS && initialToken:
\* when it holds the handler awaits disableCustomReward before anything else.
\* (Signals are taken from the listening server.)
ShutdownSignal(managed) ==
    /\ shutdownPc = "running"
    /\ started
    /\ readyState' = IF twitchEventSubClient # Null /\ ReportedState(twitchEventSubClient) = "OPEN"
                     THEN WsClose(readyState, twitchEventSubClient)
                     ELSE readyState
    /\ managed => boot.rewardId
    /\ shutdownPc' = IF managed THEN "disable_wait" ELSE "closing"
    /\ UNCHANGED boot
    /\ lastOp' = "ShutdownSignal"
    /\ connectOutcome' = "none"
    /\ UNCHANGED <<welcomed, twitchEventSubClient, twitchEventSubSessionId, timers, started>>
    /\ UNCHANGED <<authVars, raceVars, betVars, feedVars>>

\* disableCustomReward returns (true or false, it never throws): the handler
\* calls io.close and httpServer.close and sets the 10 s timer.
DisableSettles ==
    /\ shutdownPc = "disable_wait"
    /\ shutdownPc' = "closing"
    /\ UNCHANGED <<boot, sessionVars, authVars, raceVars, betVars, feedVars>>

\* the callback of httpServer.close: process.exit(128 + signalCode)
HttpServerClosed ==
    /\ shutdownPc = "closing"
    /\ shutdownPc' = "exited"
    /\ UNCHANGED <<boot, sessionVars, authVars, raceVars, betVars, feedVars>>

\* the callback of setTimeout(..., 10000): process.exit(1)
ForceExit ==
    /\ shutdownPc = "closing"
    /\ shutdownPc' = "exited"
    /\ UNCHANGED <<boot, sessionVars, authVars, raceVars, betVars, feedVars>>

ShutdownInit == shutdownPc = "running"

\* validateTwitchConfig: TWITCH_CLIENT_ID and TWITCH_CLIENT_SECRET are taken
\* as set; YOUR_TWITCH_USER_ID is required, the reward id is optional
ValidateTwitchConfig(cfg) == cfg.broadcasterId

\* startServer, its first statement: process.exit(1) unless the config is valid
ValidateConfig ==
    /\ boot.pc = "start"
    /\ boot' = [boot EXCEPT !.pc = IF ValidateTwitchConfig(boot) THEN "serving" ELSE "exit1"]
    /\ UNCHANGED <<shutdownPc, sessionVars, authVars, raceVars, betVars, feedVars>>

\* a server that passed validateTwitchConfig with both identifiers set
BootInit == boot = [broadcasterId |-> TRUE, rewardId |-> TRUE, pc |-> "serving"]

\* a process about to run startServer, whatever .env holds of the two identifiers
StartupInit ==
    /\ SessionInit /\ AuthInit /\ RaceInit /\ BetInit /\ FeedInit /\ ShutdownInit
    /\ boot \in {[broadcasterId |-> b, rewardId |-> r, pc |-> "start"] : b, r \in BOOLEAN}

\* startServer and, once the server runs, the EventSub session
StartupNext ==
    \/ ValidateConfig
    \/ boot.pc = "serving" /\ SessionNext /\ Created' + timers' <= MaxFeedSockets

\* the EventSub session of a process that receives a signal: its handlers run
\* until the process has exited
ShutdownNext ==
    \/ shutdownPc # "exited" /\ SessionNext
    \/ \E managed \in BOOLEAN : ShutdownSignal(managed)
    \/ DisableSettles
    \/ HttpServerClosed
    \/ ForceExit

Init == SessionInit /\ AuthInit /\ RaceInit /\ BetInit /\ FeedInit /\ ShutdownInit /\ BootInit

SpecSession == Init /\ [][SessionNext]_vars

\* The event loop runs every timer that was set and delivers the close event of
\* every socket that is closing.
SpecSessionLive ==
    Init /\ [][SessionNext]_vars /\ WF_vars(ReconnectTimerFires) /\ WF_vars(CloseCompletes)

SpecAuth == Init /\ [][AuthNext]_vars

SpecOverlap == Init /\ [][OverlapNext]_vars

SpecFeed == Init /\ [][FeedNext]_vars

SpecSubscribe == Init /\ [][SubscribeNext]_vars

\* The event loop runs every timer and delivers every close event; the
\* upstream completes every handshake and sends the welcome; the credential
\* lookup and the requests of createEventSubSubscription settle.
SpecSubscribeLive ==
    Init /\ [][SubscribeNext]_vars
         /\ WF_vars(ReconnectTimerFires)
         /\ WF_vars(CloseCompletes)
         /\ WF_vars(\E s \in Sockets : SocketOpen(s))
         /\ WF_vars(\E s \in Sockets : SessionWelcome(s))
         /\ WF_vars(\E s \in Sockets : SubscriptionToken(s, TRUE))
         /\ WF_vars(\E s \in Sockets : SubscriptionPost(s))

SpecStartup == StartupInit /\ [][StartupNext]_vars

\* The event loop runs every timer that was set, the reconnect timers and the
\* 10 s timer of the signal handler, and delivers the close event of every
\* socket that is closing; nothing bounds the time a request to the upstream or
\* the closing of the HTTP server takes.
SpecShutdown ==
    Init /\ [][ShutdownNext]_vars
         /\ WF_vars(shutdownPc # "exited" /\ ReconnectTimerFires)
         /\ WF_vars(shutdownPc # "exited" /\ CloseCompletes)
         /\ WF_vars(ForceExit)

SpecRace == Init /\ [][RaceNext]_vars

SpecBets == Init /\ [][BetNext]_vars

\* ================================================================ claims

LiveSockets == {s \in Sockets : readyState[s] \in {"CONNECTING", "OPEN"}}
EstablishedSessions == {s \in Sockets : readyState[s] = "OPEN" /\ welcomed[s]}

\* C1: at most one EventSub socket is live (CONNECTING or OPEN) and at most one
\* session is established, in every reachable state.
C1_SingleLiveSocket ==
    /\ Cardinality(LiveSockets) <= 1
    /\ Cardinality(EstablishedSessions) <= 1

\* C2: at most one reconnect timer is pending at any time.
C2_SingleReconnectTimer == timers <= 1

\* C3: a connectToTwitchEventSub call made while the referenced socket is
\* CONNECTING or OPEN creates no socket, schedules no timer and leaves the socket
\* reference, every socket's state and the session id unchanged.
C3_ConnectWhileLiveIsNoop ==
    [][(/\ lastOp' \in {"StartupConnect", "AuthCallbackSuccess", "ReconnectTimerFires"}
        /\ connectOutcome' # "none"
        /\ twitchEventSubClient # Null
        /\ readyState[twitchEventSubClient] \in {"CONNECTING", "OPEN"})
       => (/\ readyState' = readyState
           /\ twitchEventSubClient' = twitchEventSubClient
           /\ twitchEventSubSessionId' = twitchEventSubSessionId
           /\ welcomed' = welcomed
           /\ timers' <= timers)]_vars

\* C3 witness: a connect call returned early at a socket that is still connecting.
C3_Witness ==
    /\ connectOutcome = "noop"
    /\ lastOp = "ReconnectTimerFires"
    /\ twitchEventSubClient # Null
    /\ readyState[twitchEventSubClient] = "CONNECTING"

RecordIsEmpty == accessToken = Null /\ refreshToken = Null /\ expiresAt = Null

\* the last action was getValidAccessToken returning to its caller
GvaReturned == ret.call.op = "gva"

\* C4: whenever getValidAccessToken returns a token, expiresAt of the record is
\* more than 300 seconds after the time of the call.
C4_ReturnedTokenOutsideBuffer ==
    (GvaReturned /\ ret.token # Null)
        => (expiresAt # Null /\ expiresAt > ret.call.callTime + 300)

\* C5: a getValidAccessToken call that found the token inside the buffer and whose
\* refresh the upstream accepted sent exactly one refresh request and returns
\* the access token of that refresh response.
C5_ExpiredTokenRefreshedOnce ==
    (GvaReturned /\ ret.call.path = "expired" /\ ret.call.refreshOutcome = "refreshed")
        => (ret.call.refreshReqs = 1 /\ ret.token = ret.call.respAccess)

\* a step in which getValidAccessToken is called: it returns at once or suspends
GvaCallStep ==
    \/ ret'.call.op = "gva" /\ ret'.call.pc = "running"
    \/ \E cr \in BagToSet(calls') :
          /\ cr.op = "gva"
          /\ cr.pc \in {"validate_wait", "refresh_wait"}
          /\ cr.refreshOutcome = "none"
          /\ cr.validateReqs + cr.refreshReqs = 1
          /\ CopiesIn(cr, calls') > CopiesIn(cr, calls)

\* C6: getValidAccessToken called while the record has no access token returns
\* null at once, sends no request to the token or the introspection endpoint
\* and changes neither the record nor tokens.json, whatever refreshToken and
\* expiresAt hold.
C6_NoTokenReturnsAbsent ==
    [][(accessToken = Null /\ GvaCallStep)
        => (/\ ret'.call.op = "gva"
            /\ ret'.token = Null
            /\ ret'.call.refreshReqs = 0
            /\ ret'.call.validateReqs = 0
            /\ UNCHANGED <<accessToken, refreshToken, expiresAt, writes, file, calls>>)]_vars

\* C6 witness: the call returned null on a record without access token whose
\* expiresAt is nevertheless set.
C6_Witness ==
    /\ GvaReturned
    /\ ret.call.path = "none"
    /\ ret.token = Null
    /\ accessToken = Null
    /\ expiresAt # Null

\* C7: when getValidAccessToken finds the token inside the buffer and the
\* refresh fails, it returns null and the record is empty.
C7_FailedRefreshClearsRecord ==
    (GvaReturned /\ ret.call.path = "expired"
        /\ ret.call.refreshOutcome \in {"rejected", "no_refresh_token"})
        => (ret.token = Null /\ RecordIsEmpty)

\* C7 witness: such a call returned after the token endpoint rejected the refresh.
C7_Witness ==
    /\ GvaReturned
    /\ ret.call.path = "expired"
    /\ ret.call.refreshOutcome = "rejected"
    /\ ret.call.refreshReqs = 1
    /\ ret.token = Null

\* C8: exchangeCodeForTokens ends with the record equal to the upstream response
\* and true, or with the record empty and false.
C8_ExchangeAllOrNothing ==
    (ret.call.op = "exchange")
        => IF ret.ok
           THEN /\ accessToken = ret.call.respAccess
                /\ refreshToken = ret.call.respRefresh
                /\ expiresAt = ret.call.respExpiresAt
           ELSE RecordIsEmpty

\* some fs.writeFile on tokens.json has been started and has not settled
WriteInFlight == writes # {} \/ \E cr \in BagToSet(calls) : cr.pc \in SavePcs

\* C9: once no file write is in flight, tokens.json holds the in-memory record.
C9_FileMirrorsRecord ==
    (initialized /\ ~WriteInFlight) => LoadTokensFromFile(file) = Rec

\* C10: when refreshAccessToken fails (no refresh token stored, or the request
\* rejected) the record is empty and failure is returned; without a stored
\* refresh token no request is sent.
C10_RefreshFailureClearsRecord ==
    (ret.call.refreshOutcome \in {"rejected", "no_refresh_token"})
        => (/\ RecordIsEmpty
            /\ ~ret.ok
            /\ ret.token = Null
            /\ (ret.call.refreshOutcome = "no_refresh_token" => ret.call.refreshReqs = 0)
            /\ (ret.call.refreshOutcome = "rejected" => ret.call.refreshReqs = 1))

\* C10 witness: initialize ran refreshAccessToken on the loaded record and the
\* token endpoint rejected it.
C10_Witness ==
    /\ ret.call.op = "init"
    /\ ret.call.refreshOutcome = "rejected"
    /\ RecordIsEmpty

\* a step in which clearTokens ran: the re-authorization routes call it, and so
\* do the failure branches of refreshAccessToken, getValidAccessToken and
\* exchangeCodeForTokens before they return
ClearTokensStep ==
    \/ ClearTokens
    \/ ret'.call.refreshOutcome \in {"rejected", "no_refresh_token"}
    \/ ret'.call.op = "exchange" /\ ~ret'.ok

\* C11: clearTokens, in whatever state it is called, leaves accessToken,
\* refreshToken and expiresAt absent and starts a write of the empty record to
\* tokens.json.
C11_ClearTokensWipesAndPersists ==
    [][ClearTokensStep => (RecordIsEmpty' /\ ClearedRecord \in writes')]_vars

\* C11 witness: clearTokens ran while an operation was awaiting the save of a
\* non-empty record (no other step empties the record at that point).
C11_Witness ==
    /\ RecordIsEmpty
    /\ ClearedRecord \in writes
    /\ BagCardinality(calls) = 1
    /\ \E cr \in BagToSet(calls) : cr.pc \in SavePcs /\ cr.saving.accessToken # Null

\* C12: in every reachable state the participants list holds at most one entry
\* per userId.
C12_UniqueUserIds == Cardinality(UserIds(participants)) = Len(participants)

\* C13: after POST /registration/open registration is open and the participants
\* list is empty, whatever the list and the flag were before.
C13_OpenResetsParticipants ==
    (raceOp.op = "RegistrationOpen") => (raceIsOpen /\ participants = <<>>)

\* C13 witness: registration was opened over a non-empty list.
C13_Witness ==
    /\ raceOp.op = "RegistrationOpen"
    /\ raceOp.before # <<>>
    /\ participants = <<>>

\* C14: declaring a winner with a non-empty name leaves registration closed and
\* the list empty, and emits one race_winner_determined event with the names
\* that were in the list before the clear, in order.
C14_WinnerClearsAndReportsSnapshot ==
    (raceOp.op = "RaceWinner" /\ raceOp.userName # <<>>)
        => (/\ ~raceIsOpen
            /\ participants = <<>>
            /\ emitted = <<[type |-> "race_winner_determined",
                            winningRatName |-> raceOp.userName,
                            participants |-> [i \in 1..Len(raceOp.before) |->
                                                 raceOp.before[i].userName]]>>)

\* C14 witness: a winner was declared over two participants with different names.
C14_Witness ==
    /\ raceOp.op = "RaceWinner"
    /\ raceOp.userName # <<>>
    /\ Len(raceOp.before) = 2
    /\ raceOp.before[1].userName # raceOp.before[2].userName
    /\ participants = <<>>

\* the last handler passed a registration command to handleRegistrationCommand
\* (a chat notification whose text matched, or a simulated chat message)
RegistrationCommandHandled ==
    \/ raceOp.op = "ChatNotification" /\ raceOp.command
    \/ raceOp.op = "TestChatMessage"

\* C15: a registration command from a userId not yet present, received while
\* registration is open, appends exactly one participant with that userId and
\* userName at the end of the list and emits exactly one new_participant event
\* with that userName.
C15_RegistrationAppendsOne ==
    (/\ RegistrationCommandHandled
     /\ raceOp.openBefore
     /\ raceOp.userId \notin UserIds(raceOp.before))
        => (/\ Len(participants) = Len(raceOp.before) + 1
            /\ SubSeq(participants, 1, Len(raceOp.before)) = raceOp.before
            /\ participants[Len(participants)].userId = raceOp.userId
            /\ participants[Len(participants)].userName = raceOp.userName
            /\ emitted = <<[type |-> "new_participant", userName |-> raceOp.userName]>>)

\* C15 witness: a chat command was accepted when the list already held an entry.
C15_Witness ==
    /\ raceOp.op = "ChatNotification"
    /\ raceOp.command
    /\ raceOp.openBefore
    /\ Len(raceOp.before) = 1
    /\ Len(participants) = 2

\* C16: a redemption of the configured betting reward received while betting is
\* closed leaves the bets list unchanged and emits no event.
C16_ClosedBettingIgnoresRedemption ==
    (/\ betOp.op = "RedemptionNotification"
     /\ betOp.rewardId = CHANNEL_POINT_REWARD_ID_FOR_BETS
     /\ ~betOp.openBefore)
        => (currentBets = betOp.before /\ betEmitted = <<>>)

\* C16 witness: such a redemption arrived after betting was closed with a bet
\* in the list.
C16_Witness ==
    /\ betOp.op = "RedemptionNotification"
    /\ betOp.rewardId = CHANNEL_POINT_REWARD_ID_FOR_BETS
    /\ ~betOp.openBefore
    /\ betOp.before # <<>>
    /\ currentBets = betOp.before

\* C17: a redemption of the configured betting reward received while betting is
\* open appends exactly one bet, also when the user already has bets, and emits
\* exactly one new_bet_placed event; a redemption of another reward appends
\* nothing.
C17_OpenBettingAppendsOneBet ==
    (betOp.op = "RedemptionNotification")
        => IF betOp.rewardId = CHANNEL_POINT_REWARD_ID_FOR_BETS
           THEN betOp.openBefore
                  => (/\ Len(currentBets) = Len(betOp.before) + 1
                      /\ SubSeq(currentBets, 1, Len(betOp.before)) = betOp.before
                      /\ currentBets[Len(currentBets)].userId = betOp.userId
                      /\ Len(betEmitted) = 1
                      /\ betEmitted[1].type = "new_bet_placed")
           ELSE currentBets = betOp.before /\ betEmitted = <<>>

\* C17 witness: a second bet of the same user was recorded.
C17_Witness ==
    /\ betOp.op = "RedemptionNotification"
    /\ betOp.rewardId = CHANNEL_POINT_REWARD_ID_FOR_BETS
    /\ betOp.openBefore
    /\ Len(betOp.before) = 1
    /\ betOp.before[1].userId = betOp.userId
    /\ Len(currentBets) = 2

\* C18: the bets list is empty right after betting is opened and right after a
\* winner is declared (a request that names one), whatever it held before;
\* closing betting leaves it unchanged.
C18_BetsClearedOnOpenAndWinner ==
    /\ (betOp.op = "BetsOpen") => (currentBets = <<>>)
    /\ (betOp.op = "BetsRaceWinner" /\ betOp.present) => (currentBets = <<>>)
    /\ (betOp.op = "BetsClose") => (currentBets = betOp.before)

\* C18 witness: betting was opened over a non-empty list.
C18_Witness ==
    /\ betOp.op = "BetsOpen"
    /\ betOp.before # <<>>
    /\ currentBets = <<>>

C20_SessionReconnectOpensNewConnection ==
    (lastOp = "SessionReconnect" /\ Created < MaxSockets) ~> (connectOutcome = "created")

\* C21: every session_welcome processed is followed by exactly one call of
\* createEventSubSubscription (one event type is configured) that passes the
\* session id of that welcome; a socket without welcome causes no call.
C21_WelcomeSubscribesOnce ==
    \A s \in Sockets :
        subscribeCalls[s] = IF welcomed[s] THEN <<SessionIdOf(s)>> ELSE <<>>

\* C21 witness: the welcome of a second socket was processed after the first
\* socket's, each with its own call.
C21_Witness ==
    /\ welcomed[1] /\ welcomed[2]
    /\ lastOp = "SessionWelcome"
    /\ twitchEventSubSessionId = SessionIdOf(2)
    /\ subscribeCalls[2] = <<SessionIdOf(2)>>

\* C22: the step that handles the signal leaves no reconnect timer pending and
\* no socket CONNECTING or OPEN, and once shutdown has begun no socket is
\* created.
C22_ShutdownStopsReconnects ==
    [][/\ (\E managed \in BOOLEAN : ShutdownSignal(managed))
            => (/\ timers' = 0
                /\ \A s \in Sockets : readyState'[s] \notin {"CONNECTING", "OPEN"})
       /\ (shutdownPc # "running") => (Created' = Created)]_vars

\* C23: once a shutdown signal was handled the process eventually exits,
\* whatever the reward request and the closing of the HTTP server do.
C23_ExitsAfterSignal == (shutdownPc # "running") ~> (shutdownPc = "exited")

\* the source file that holds the statement by which handler `op` assigns
\* raceState.isOpen or assigns or pushes to participants.current
WritingModule(op) ==
    CASE op \in {"ChatNotification", "TestChatMessage"} -> "TwitchEventSub"
      [] op \in {"RegistrationOpen", "RegistrationClose", "RaceWinner", "TestAddParticipant"}
            -> "apiRoutes"
      [] OTHER -> "none"

\* C24: every change of the participants list or of the open flag is made by a
\* statement of the owning component, never by a statement of a route handler.
C24_OnlyOwnerWrites ==
    [][(participants' # participants \/ raceIsOpen' # raceIsOpen)
        => (WritingModule(raceOp'.op) = "TwitchEventSub")]_vars

\* C25: while an operation has written the record and its write of tokens.json
\* has not settled, no step writes the in-memory record.
C25_SingleRecordWriter ==
    [][(\E cr \in BagToSet(calls) : cr.pc \in SavePcs)
        => UNCHANGED <<accessToken, refreshToken, expiresAt>>]_vars

\* C26: a getValidAccessToken call that found the token outside the buffer sends
\* one introspection request; reported valid, it sends no refresh request and
\* returns the stored token; reported invalid, it refreshes once and returns the
\* token of the response, or returns null with the record empty when the refresh
\* fails.
C26_FreshTokenValidatedThenReturned ==
    (GvaReturned /\ ret.call.path = "fresh")
        => /\ ret.call.validateReqs = 1
           /\ (ret.call.refreshOutcome = "none")
                 => (ret.call.refreshReqs = 0 /\ ret.token # Null /\ ret.token = accessToken)
           /\ (ret.call.refreshOutcome = "refreshed")
                 => (ret.call.refreshReqs = 1 /\ ret.token = ret.call.respAccess)
           /\ (ret.call.refreshOutcome \in {"rejected", "no_refresh_token"})
                 => (ret.call.refreshReqs <= 1 /\ ret.token = Null /\ RecordIsEmpty)

\* C27: a chat message whose trimmed, lower-cased text does not start with
\* "!register" leaves the participants list as it was, whether it arrived as a
\* notification or through POST /api/test/chat-message.
C27_OnlyRegisterCommandAdds ==
    (raceOp.op \in {"ChatNotification", "TestChatMessage"} /\ ~raceOp.command)
        => (participants = raceOp.before)

\* C28: while the socket created last is connected and its welcome was
\* processed the module holds the session id of that welcome, and a session id
\* is held only for a welcomed socket that has not closed.
C28_SessionIdHeldUntilClose ==
    /\ (Created > 0 /\ welcomed[Created] /\ readyState[Created] \in {"OPEN", "CLOSING"})
          => (twitchEventSubSessionId = SessionIdOf(Created))
    /\ (twitchEventSubSessionId # Null)
          => \E s \in Sockets : /\ twitchEventSubSessionId = SessionIdOf(s)
                                /\ welcomed[s]
                                /\ readyState[s] \in {"OPEN", "CLOSING"}

\* C29: a session_keepalive, a revocation or a message of an unknown type
\* changes no socket's state, neither the socket reference nor the session id,
\* sets no timer, leaves participants, bets and both open flags alone and emits
\* nothing.
C29_IgnoredMessageChangesNothing ==
    [][(\E s \in Sockets, kind \in IgnoredKinds : IgnoredMessage(s, kind))
        => UNCHANGED <<readyState, welcomed, twitchEventSubClient, twitchEventSubSessionId,
                       timers, raceIsOpen, participants, emitted,
                       bettingIsOpen, currentBets, betEmitted>>]_vars

\* C29 witness: such a message was handled on the open socket of an
\* established session.
C29_Witness ==
    /\ lastOp = "IgnoredMessage"
    /\ twitchEventSubClient # Null
    /\ readyState[twitchEventSubClient] = "OPEN"
    /\ twitchEventSubSessionId = SessionIdOf(twitchEventSubClient)

\* C30: a notification that changed the participants list was delivered by a
\* socket whose welcome had been processed and whose session id the module held
\* at that moment.
C30_NotificationUnderHeldSession ==
    delivery.applied
        => (/\ welcomed[delivery.socket]
            /\ delivery.sessionId = SessionIdOf(delivery.socket))

\* a step of createEventSubSubscription
SubscriptionStep ==
    \/ \E s \in Sockets, hasToken \in BOOLEAN : SubscriptionToken(s, hasToken)
    \/ \E s \in Sockets : SubscriptionPost(s)
    \/ \E s \in Sockets, outcome \in {"rejected", "created"} : SubscriptionSettles(s, outcome)

\* C31: a call of createEventSubSubscription sends at most one subscription
\* POST: none when no token was available, exactly one when the request was
\* rejected; no step of it changes a socket, the socket reference, the session
\* id or the timers.
C31_SubscriptionSentAtMostOnce ==
    /\ [](\A s \in Sockets :
            /\ Len(posts[s]) <= Len(subscribeCalls[s])
            /\ (subscription[s] = "no_token") => (posts[s] = <<>>)
            /\ (subscription[s] = "rejected") => (Len(posts[s]) = 1))
    /\ [][SubscriptionStep
            => UNCHANGED <<readyState, welcomed, twitchEventSubClient,
                           twitchEventSubSessionId, timers>>]_vars

\* C31 witness: the call of one welcome ended without a token and the call of
\* another with a rejected request.
C31_Witness ==
    \E s1, s2 \in Sockets :
        /\ subscription[s1] = "no_token"
        /\ subscription[s2] = "rejected"
        /\ posts[s2] = <<[sessionId |-> SessionIdOf(s2), current |-> posts[s2][1].current,
                          socket |-> posts[s2][1].socket]>>

\* C32: the process never exits for a missing identifier, and a welcome whose
\* subscription was skipped for one leaves the socket welcomed with no call of
\* the registrar.
C32_MissingIdentifierKeepsRunning ==
    /\ boot.pc # "exit1"
    /\ \A s \in Sockets :
          (subscription[s] = "skipped") => (welcomed[s] /\ subscribeCalls[s] = <<>>)

\* C33: a redemption notification processed directly after the same
\* notification (same user, reward and input) was processed and recorded as a
\* bet leaves the bets as they are.
C33_RedeliveryIsIdempotent ==
    [][(/\ betOp.op = "RedemptionNotification"
        /\ currentBets # betOp.before
        /\ \E u \in ChatUsers, rewardId \in RewardIds, userInput \in UserInputs :
              /\ RedemptionNotification(u, rewardId, userInput, TRUE)
              /\ currentBets[Len(currentBets)].userId = u.userId
              /\ currentBets[Len(currentBets)].rewardId = rewardId
              /\ currentBets[Len(currentBets)].userInput = userInput)
       => (currentBets' = currentBets)]_vars

C35_PostCarriesCurrentSession ==
    \A s \in Sockets : \A i \in 1..Len(posts[s]) :
        /\ posts[s][i].current = posts[s][i].sessionId
        /\ posts[s][i].socket # "CLOSED"

\* C36: the socket reference designates the live socket: every socket that is
\* CONNECTING or OPEN is the referenced one, so the reference is null only
\* when no socket is live, and a welcomed socket that is still open has its
\* session id held.
C36_ReferenceDesignatesLiveSocket ==
    /\ \A s \in LiveSockets : twitchEventSubClient = s
    /\ \A s \in EstablishedSessions : twitchEventSubSessionId = SessionIdOf(s)

\* C37: a getValidAccessToken call that found the token expired and whose
\* refresh was rejected does not empty a record that holds an unexpired token
\* (the one another call's refresh stored in the meantime).
C37_RefreshSuccessNotWiped ==
    [][(/\ ret'.call.op = "gva"
        /\ ret'.call.path = "expired"
        /\ ret'.call.refreshOutcome = "rejected"
        /\ BagCardinality(calls') < BagCardinality(calls)
        /\ accessToken # Null
        /\ ~IsAccessTokenExpired(expiresAt, now))
       => (accessToken' # Null)]_vars

\* C38: once initialize has returned, an empty record stays empty except by
\* the success branch of exchangeCodeForTokens.
C38_ClearedStaysEmptyUntilExchange ==
    [][(initialized /\ RecordIsEmpty /\ ~RecordIsEmpty')
        => (\E cr \in BagToSet(calls') : cr.op = "exchange" /\ cr.pc = "exchange_save")]_vars

\* C39: when no operation of the manager is suspended, a record without
\* access token has neither refresh token nor expiresAt, and a record with an
\* access token has an expiresAt.
C39_RecordCoherent ==
    (initialized /\ calls = EmptyBag)
        => (/\ (accessToken = Null) => (refreshToken = Null /\ expiresAt = Null)
            /\ (accessToken # Null) => (expiresAt # Null))

\* C40, its second half: when the OAuth callback ran with a successful
\* exchange while the referenced socket was OPEN and welcomed and the
\* subscription call of its welcome had ended for want of a token, a
\* subscription POST is eventually sent, unless no socket is live any more.
C40_CallbackLeadsToSubscription ==
    (/\ lastOp = "AuthCallbackSuccess"
     /\ twitchEventSubClient # Null
     /\ readyState[twitchEventSubClient] = "OPEN"
     /\ welcomed[twitchEventSubClient]
     /\ subscription[twitchEventSubClient] = "no_token")
        ~> (lastOp = "SubscriptionPost" \/ LiveSockets = {})
====
